---- MODULE Spec2Model ----
(***************************************************************************)
(* A model of toy_diffusion_2d.py: the set-up of a run, the time loop of   *)
(* main() position by position, and the numerical kernels it calls (the    *)
(* ADI diffusion step, the smoothing of the event schedule, the periodic   *)
(* distance field).                                                        *)
(*                                                                         *)
(* Real numbers are exact rationals [n |-> numerator, d |-> denominator],  *)
(* kept normalised (d > 0, gcd(n, d) = 1); floating-point rounding is not  *)
(* modelled.  Lengths are in metres and times in seconds, as in the        *)
(* source.                                                                 *)
(***************************************************************************)
EXTENDS Integers, Sequences, FiniteSets, TLC

VARIABLES
    pars,           \* the parameter dictionary handed to main()
    pc,             \* position of the run inside main()
    err,            \* the exception that ended the run, "" while there is none
    it,             \* loop counter of the time loop
    ncnv,           \* event schedule: ncnv[it], after smoothing
    ncnv_overflow,  \* events borrowed from future steps (<= 0)
    ncnv_new,       \* number of new events of the current step
    new_loc,        \* cells ignited by the current step
    cnv_idx,        \* indicator field: 1 where convection is active
    crh,            \* CRH field
    cin,            \* cold-pool field
    cnvdst,         \* distance to the nearest updraft
    nc1,            \* maps file: "unopened", "open" or "closed"
    nc2,            \* statistics file
    stats,          \* statistics file: variable -> (index -> written value)
    maps,           \* maps file: record position -> step written there
    nccnt,          \* number of records in the maps file
    arg,            \* input of a kernel checked on its own
    res             \* its result

vars == <<pars, pc, err, it, ncnv, ncnv_overflow, ncnv_new, new_loc, cnv_idx,
          crh, cin, cnvdst, nc1, nc2, stats, maps, nccnt, arg, res>>

----------------------------------------------------------------------------
(* Integers *)

Abs(a) == IF a < 0 THEN -a ELSE a

Sgn(a) == IF a < 0 THEN -1 ELSE IF a = 0 THEN 0 ELSE 1

\* Python's int(a/b) for b # 0: the quotient truncated towards zero.
TruncDiv(a, b) == Sgn(a) * Sgn(b) * (Abs(a) \div Abs(b))

RECURSIVE GCD(_, _)
GCD(a, b) == IF b = 0 THEN a ELSE GCD(b, a % b)

RECURSIVE SeqSum(_)
SeqSum(s) == IF s = <<>> THEN 0 ELSE Head(s) + SeqSum(Tail(s))

----------------------------------------------------------------------------
(* Exact rationals *)

Q(a, b) ==
    LET g == GCD(Abs(a), Abs(b))
    IN  [n |-> Sgn(b) * (a \div g), d |-> Abs(b) \div g]

RInt(k) == [n |-> k, d |-> 1]
RZero == RInt(0)
ROne == RInt(1)

\* The sum over the least common denominator.
RAdd(x, y) ==
    IF x.n = 0 THEN y
    ELSE IF y.n = 0 THEN x
    ELSE IF x.d = 1 /\ y.d = 1 THEN [n |-> x.n + y.n, d |-> 1]
    ELSE IF x.d = y.d THEN Q(x.n + y.n, x.d)
    ELSE LET g == GCD(x.d, y.d)
         IN  Q(x.n * (y.d \div g) + y.n * (x.d \div g), (x.d \div g) * y.d)
RNeg(x) == [n |-> -x.n, d |-> x.d]
RSub(x, y) == RAdd(x, RNeg(y))
\* The product, with the common factors taken out before multiplying.
RMul(x, y) ==
    IF x.n = 0 \/ y.n = 0 THEN RZero
    ELSE IF x.d = 1 /\ y.d = 1 THEN [n |-> x.n * y.n, d |-> 1]
    ELSE LET g1 == GCD(Abs(x.n), y.d)
             g2 == GCD(Abs(y.n), x.d)
         IN  [n |-> (x.n \div g1) * (y.n \div g2), d |-> (x.d \div g2) * (y.d \div g1)]
RInv(x) == [n |-> Sgn(x.n) * x.d, d |-> Abs(x.n)]
RDiv(x, y) == RMul(x, RInv(y))
RLt(x, y) == RSub(x, y).n < 0
RLe(x, y) == RSub(x, y).n <= 0
RMin(x, y) == IF RLe(x, y) THEN x ELSE y
RMax(x, y) == IF RLe(x, y) THEN y ELSE x

RECURSIVE RSeqSum(_)
RSeqSum(s) == IF s = <<>> THEN RZero ELSE RAdd(Head(s), RSeqSum(Tail(s)))

----------------------------------------------------------------------------
(* Grid *)

Idx(n) == 0 .. (n - 1)

\* Index pairs of an nx-by-ny array.
Cells(nx, ny) == Idx(nx) \X Idx(ny)

\* np.roll(fld, s, axis): entry <<i, j>> of the result is the entry of fld
\* s places back along the axis, wrapping round.
roll(fld, s, axis, nx, ny) ==
    [c \in DOMAIN fld |->
        IF axis = 0 THEN fld[<<(c[1] - s) % nx, c[2]>>]
                    ELSE fld[<<c[1], (c[2] - s) % ny>>]]

\* Sum of a field of rationals.
RECURSIVE FieldSum(_)
FieldSum(fld) ==
    IF DOMAIN fld = {} THEN RZero
    ELSE LET c == CHOOSE k \in DOMAIN fld : TRUE
         IN  RAdd(fld[c], FieldSum([k \in DOMAIN fld \ {c} |-> fld[k]]))

----------------------------------------------------------------------------
(* Circulant systems and the ADI step *)

\* Determinant of a square matrix of rationals (a sequence of rows), by
\* expansion along the first row.
RECURSIVE Det(_)
Det(M) ==
    IF Len(M) = 1 THEN M[1][1]
    ELSE LET n == Len(M)
             Minor(j) == [r \in 1 .. (n - 1) |->
                            [k \in 1 .. (n - 1) |-> M[r + 1][IF k < j THEN k ELSE k + 1]]]
             Term(j) == IF M[1][j].n = 0 THEN RZero
                        ELSE LET t == RMul(M[1][j], Det(Minor(j)))
                             IN  IF j % 2 = 1 THEN t ELSE RNeg(t)
         IN  RSeqSum([j \in 1 .. n |-> Term(j)])

\* The circulant matrix of first column c (c indexed from 0): C[i][j] = c[(i-j) mod n].
Circulant(c, n) == [r \in 1 .. n |-> [k \in 1 .. n |-> c[(r - k) % n]]]

\* The first column of the inverse of the circulant matrix of c: the solution w
\* of C w = e0, by Cramer's rule.  (scipy computes ifft(1/fft(c)).)
CircInverse(c, n) ==
    LET C == Circulant(c, n)
        D == Det(C)
        Repl(i) == [r \in 1 .. n |-> [k \in 1 .. n |->
                      IF k = i + 1 THEN (IF r = 1 THEN ROne ELSE RZero) ELSE C[r][k]]]
    IN  [i \in Idx(n) |-> RDiv(Det(Repl(i)), D)]

\* Circular convolution of w and b.
CircConv(w, b, n) ==
    [i \in Idx(n) |-> RSeqSum([j \in 1 .. n |-> RMul(w[(i - (j - 1)) % n], b[j - 1])])]

\* scipy.linalg.solve_circulant(c, b): the x with C x = b, computed as
\* ifft(fft(b)/fft(c)), that is b convolved with the inverse of c.
solve_circulant(c, b, n) == CircConv(CircInverse(c, n), b, n)

\* The vector main() builds for a circulant tridiagonal system: zeros(n), then
\* entry 0 set to diag, entry 1 and entry -1 (the last one) set to off.
CircVec(diag, off, n) ==
    [i \in Idx(n) |-> IF i = 0 THEN diag ELSE IF i = 1 \/ i = n - 1 THEN off ELSE RZero]

\* Explicit half of the first sweep: f = (1-a0)*fld + a1*roll(fld,1,0) + a1*roll(fld,-1,0).
ADIExplicit0(fld, a0, a1, nx, ny) ==
    LET up == roll(fld, 1, 0, nx, ny)
        dn == roll(fld, -1, 0, nx, ny)
    IN  [c \in DOMAIN fld |->
            RAdd(RMul(RSub(ROne, a0), fld[c]), RAdd(RMul(a1, up[c]), RMul(a1, dn[c])))]

\* Explicit half of the second sweep:
\* g = (1-a0-a2)*x + a1*roll(x,1,1) + a1*roll(x,-1,1).
ADIExplicit1(x, a0, a1, a2, nx, ny) ==
    LET lf == roll(x, 1, 1, nx, ny)
        rt == roll(x, -1, 1, nx, ny)
    IN  [c \in DOMAIN x |->
            RAdd(RMul(RSub(RSub(ROne, a0), a2), x[c]), RAdd(RMul(a1, lf[c]), RMul(a1, rt[c])))]

\* ADI(fld, a0, a1, a2, nx, ny, x, y, z); the scratch array x is local here.
\* Each row k of f is solved against y, then each column j of g against z; the
\* inverse of y (of z) is the same for every row (column) and is computed once.
ADI(fld, a0, a1, a2, nx, ny, y, z) ==
    LET f == ADIExplicit0(fld, a0, a1, nx, ny)
        wy == CircInverse(y, nx)
        xr == [k \in Idx(ny) |-> CircConv(wy, [j \in Idx(nx) |-> f[<<k, j>>]], nx)]
        x == [c \in DOMAIN fld |-> xr[c[1]][c[2]]]
        g == ADIExplicit1(x, a0, a1, a2, nx, ny)
        wz == CircInverse(z, nx)
        yc == [j \in Idx(nx) |-> CircConv(wz, [k \in Idx(ny) |-> g[<<k, j>>]], nx)]
    IN  [c \in DOMAIN fld |-> yc[c[2]][c[1]]]

\* The vectors of main()'s two circulant systems: y has 1+omega+alpha on the
\* diagonal, z has 1+alpha, both -beta beside it.
y_vec(alpha, beta, omega, nx) == CircVec(RAdd(ROne, RAdd(omega, alpha)), RNeg(beta), nx)
z_vec(alpha, beta, nx) == CircVec(RAdd(ROne, alpha), RNeg(beta), nx)

\* main()'s call ADI(fld, alpha, beta, omega, nx, ny, x, y, z) with alpha = 2*beta.
ADIStep(fld, beta, omega, nx) ==
    LET alpha == RMul(RInt(2), beta)
    IN  ADI(fld, alpha, beta, omega, nx, nx,
            y_vec(alpha, beta, omega, nx), z_vec(alpha, beta, nx))

----------------------------------------------------------------------------
(* Quantities main() derives from the parameters *)

\* nx = int(domain_x/dxy)+1, and ny is the same number.
nx_of(P) == TruncDiv(P.domain_xy, P.dxy) + 1

\* dxkm = dxy/1000.
dxkm_of(P) == Q(P.dxy, 1000)

\* nt = int(nday*86400/dt).
nt_of(P) == TruncDiv(P.nday * 86400, P.dt)

\* w_sub = 15000./(tau_sub*86400.)
w_sub_of(P) == Q(15000, P.tau_sub * 86400)

\* dt_tau_cnv = dt/tau_cnv
dt_tau_cnv_of(P) == Q(P.dt, P.tau_cnv)

\* cnv_death = min(dt/cnv_lifetime, 1.0)
cnv_death_of(P) == RMin(Q(P.dt, P.cnv_lifetime), ROne)

\* beta = .5*diffK*dt/dxy**2, omega = dt/(2*tau_sub*86400.)
beta_of(P) == Q(P.diffK * P.dt, 2 * P.dxy * P.dxy)
omega_of(P) == Q(P.dt, 2 * P.tau_sub * 86400)

\* beta_cin = .5*diffCIN*dt/dxy**2, omega_cin = .5*dt/tau_cin
beta_cin_of(P) == Q(P.diffCIN * P.dt, 2 * P.dxy * P.dxy)
omega_cin_of(P) == Q(P.dt, 2 * P.tau_cin)

\* Nsmth = int(cnv_lifetime/dt)
Nsmth_of(P) == TruncDiv(P.cnv_lifetime, P.dt)

\* ncnv_tot = int(nt*nx*ny*w_sub/w_cnv)
ncnv_tot_of(P) ==
    LET r == RDiv(RMul(RInt(nt_of(P) * nx_of(P) * nx_of(P)), w_sub_of(P)), P.w_cnv)
    IN  TruncDiv(r.n, r.d)

\* int(nfig_hr*3600/dt), the number of steps between two maps.
nfig_steps_of(P) == TruncDiv(P.nfig_hr * 3600, P.dt)

\* np.exp at the arguments the parameter sets below produce, -0.6931 and
\* +0.6931 (dt/tau_cnv = +-1.3862), where it is 0.5000 and 2.000 to four
\* digits.  All that is used of it is exp(x) < 1 for x < 0, exp(0) = 1 and
\* exp(x) > 1 for x > 0.
np_exp(x) == IF x.n < 0 THEN Q(1, 2) ELSE IF x.n = 0 THEN ROne ELSE RInt(2)

----------------------------------------------------------------------------
(* The event schedule *)

\* All sequences of nt non-negative integers of sum tot: what
\* np.bincount(np.random.choice(times, ncnv_tot, p=pdiurn), minlength=nt) can
\* return when every entry of pdiurn is positive (diurn_opt = 0).
RECURSIVE Schedules(_, _)
Schedules(nt, tot) ==
    IF nt = 0 THEN (IF tot = 0 THEN {<<>>} ELSE {})
    ELSE UNION {{<<k>> \o s : s \in Schedules(nt - 1, tot - k)} : k \in 0 .. tot}

\* Index into a line of n entries extended by reflection about its edges
\* (mode 'reflect': d c b a | a b c d | d c b a).
ReflectIdx(j, n) ==
    LET m == j % (2 * n) IN IF m < n THEN m ELSE 2 * n - 1 - m

\* scipy.ndimage uniform_filter1d(x, size) for an integer array x: entry i is
\* the mean of the size entries i - size//2 .. i - size//2 + size - 1 of the
\* reflected line, converted back to the integer type of x (truncated).
\* x is a sequence; its entry for index i is x[i + 1].
uniform_filter1d(x, size) ==
    LET n == Len(x)
        size1 == size \div 2
        Window(i) == [k \in 1 .. size |-> x[ReflectIdx(i - size1 + (k - 1), n) + 1]]
    IN  [i1 \in 1 .. n |-> TruncDiv(SeqSum(Window(i1 - 1)), size)]

\* ncnv as the time loop reads it: smoothed only if Nsmth > 1.
Smoothed(raw, Nsmth) == IF Nsmth > 1 THEN uniform_filter1d(raw, Nsmth) ELSE raw

----------------------------------------------------------------------------
(* The distance to the nearest updraft *)

\* A distance is kept as [scale, r2] and stands for scale * sqrt(r2): the
\* query works on integer grid coordinates, so r2 is an integer, and the
\* result is multiplied by dxkm.
SentinelDist == 1000000

ActiveCells(idx) == {c \in DOMAIN idx : idx[c] # 0}

Sq(a) == a * a

SetMin(S) == CHOOSE m \in S : \A k \in S : m <= k

\* Images with the shifts by -nx and -ny left out: the slip C2 would detect.
ImagesForwardOnly(active, nx, ny) ==
    {<<a[1] + xoff, a[2] + yoff>> : a \in active, xoff \in {0, nx}, yoff \in {0, ny}}

\* j9: the active coordinates and their eight periodic images.
Images(active, nx, ny) ==
    {<<a[1] + xoff, a[2] + yoff>> : a \in active, xoff \in {0, nx, -nx}, yoff \in {0, -ny, ny}}

\* tree.query(allidx): for every grid point the Euclidean distance to the
\* nearest point of j9 (here its square).
NearestSq(points, c) == SetMin({Sq(p[1] - c[1]) + Sq(p[2] - c[2]) : p \in points})

\* DistanceField without the conversion cnvdst *= dxkm: the slip C1 would detect.
DistanceFieldGridUnits(idx, nx, ny, dxkm) ==
    IF ActiveCells(idx) # {}
    THEN LET j9 == Images(ActiveCells(idx), nx, ny)
         IN  [c \in DOMAIN idx |-> [scale |-> ROne, r2 |-> NearestSq(j9, c)]]
    ELSE [c \in DOMAIN idx |-> [scale |-> RInt(SentinelDist), r2 |-> 1]]

\* cnvdst as lines 391-411 leave it.
DistanceField(idx, nx, ny, dxkm) ==
    IF ActiveCells(idx) # {}
    THEN LET j9 == Images(ActiveCells(idx), nx, ny)
         IN  [c \in DOMAIN idx |-> [scale |-> dxkm, r2 |-> NearestSq(j9, c)]]
    ELSE [c \in DOMAIN idx |-> [scale |-> RInt(SentinelDist), r2 |-> 1]]

\* scale*sqrt(r2) = 0
DistIsZero(v) == v.scale.n = 0 \/ v.r2 = 0

\* scale*sqrt(r2) < r for a distance with scale >= 0 and a rational r
DistLt(v, r) ==
    IF r.n <= 0 THEN FALSE
    ELSE IF v.r2 >= 1 /\ RLe(r, v.scale) THEN FALSE
    ELSE RLt(RMul(RMul(v.scale, v.scale), RInt(v.r2)), RMul(r, r))

----------------------------------------------------------------------------
(* Convective relaxation, ignition support, cold pools *)

\* crh = (crh_det+(crh-crh_det)*np.exp(-0.5*dt_tau_cnv))*cnv_idx+crh*(1-cnv_idx)
Relax(fld, idx, crh_det, dt_tau_cnv) ==
    LET e == np_exp(RMul(Q(-1, 2), dt_tau_cnv))
    IN  [c \in DOMAIN fld |->
            RAdd(RMul(RAdd(crh_det, RMul(RSub(fld[c], crh_det), e)), RInt(idx[c])),
                 RMul(fld[c], RInt(1 - idx[c])))]

\* The cells where prob1d is positive: exp(crh_ad*crh) is positive everywhere,
\* (1-cnv_idx) removes the active cells and, with cold pools, (1-cin) those
\* where cin is 1.
Support(idx, cinfld, cin_radius) ==
    {c \in DOMAIN idx : idx[c] = 0 /\ (cin_radius > 0 => cinfld[c] # ROne)}

\* clip01 that clips nothing: the slip C14 would detect.
clipNothing(fld) == fld

\* np.clip(fld, 0, 1)
clip01(fld) == [c \in DOMAIN fld |-> RMax(RZero, RMin(fld[c], ROne))]

\* maskcin = np.where(cnvdst < cin_radius, 1, 0); cin = clip(cin + maskcin)
MarkCold(cinfld, dst, cin_radius) ==
    clip01([c \in DOMAIN cinfld |->
              RAdd(cinfld[c], IF DistLt(dst[c], RInt(cin_radius)) THEN ROne ELSE RZero)])

----------------------------------------------------------------------------
(* Values of the variables a specification does not use *)

NoPars == [none |-> TRUE]
NoField == <<>>

IdleRun ==
    /\ pars = NoPars /\ err = "" /\ it = 0
    /\ ncnv = <<>> /\ ncnv_overflow = 0 /\ ncnv_new = 0 /\ new_loc = {}
    /\ cnv_idx = NoField /\ crh = NoField /\ cin = NoField /\ cnvdst = NoField
    /\ nc1 = "unopened" /\ nc2 = "unopened"
    /\ stats = <<>> /\ maps = <<>> /\ nccnt = 0

runVars == <<pars, err, it, ncnv, ncnv_overflow, ncnv_new, new_loc, cnv_idx,
             crh, cin, cnvdst, nc1, nc2, stats, maps, nccnt>>

----------------------------------------------------------------------------
(* Parameters *)

MaxDays == 2

\* A 3 x 3 grid of 9 km cells with daily steps, no diffusion, no cold pools,
\* events living two steps, and nt events in all.
BasePars ==
    [dt |-> 86400, nday |-> 1, domain_xy |-> 18000, dxy |-> 9000,
     diffK |-> 0, tau_sub |-> 1, cin_radius |-> -99, tau_cnv |-> 62330,
     crh_det |-> Q(21, 20), cnv_lifetime |-> 172800, diffCIN |-> 0,
     tau_cin |-> 86400, w_cnv |-> Q(25, 16), crh_init_mn |-> Q(4, 5),
     crh_init_sd |-> RZero, nfig_hr |-> 24]

\* 2 x 2 grids of 18 km cells with 2*nt events in all, with 6*nt (more than
\* cells), and with 2*nt/3.
DensePars == [BasePars EXCEPT !.dxy = 18000, !.w_cnv = Q(25, 72)]
CrowdedPars == [BasePars EXCEPT !.dxy = 18000, !.w_cnv = Q(25, 216)]
SparsePars == [BasePars EXCEPT !.dxy = 18000, !.w_cnv = Q(25, 24)]

\* One parameter changed: a grid spacing, a time scale or a lifetime that is
\* zero or negative, a lifetime of one step, maps rarer than the steps.
Variants(P) ==
    {P}
    \cup {[P EXCEPT !.dxy = v] : v \in {0, -9000, 36000}}
    \cup {[P EXCEPT !.tau_sub = v] : v \in {0, -1}}
    \cup {[P EXCEPT !.tau_cnv = 0]}
    \cup {[P EXCEPT !.cnv_lifetime = v] : v \in {0, -86400, 86400}}
    \cup {[P EXCEPT !.tau_cin = 0]}
    \cup {[P EXCEPT !.nfig_hr = 6]}

\* One parameter changed, on the small grid only: a negative convective time
\* scale, a map every second step, a moist initial state.
MoreVariants(P) ==
    {[P EXCEPT !.tau_cnv = -62330],
     [P EXCEPT !.nfig_hr = 48],
     [P EXCEPT !.crh_init_mn = Q(6, 5)]}

\* Diffusion of humidity; cold pools reaching the next cell or the whole
\* grid, with or without diffusion, decaying or (tau_cin < 0) growing.
DiffusiveVariants(P) ==
    {[P EXCEPT !.diffK = 1875],
     [P EXCEPT !.cin_radius = 10, !.diffCIN = 1875],
     [P EXCEPT !.cin_radius = 10, !.diffCIN = 1875, !.tau_cin = -86400],
     [P EXCEPT !.cin_radius = 30, !.tau_cin = -86400],
     [P EXCEPT !.cin_radius = 10, !.tau_cin = -86400]}

\* The exact fractions of a diffusing field outgrow TLC's integers after two
\* steps, so these runs last one or two days.
DiffusiveDays == {1, 2}

\* A day of three steps of eight hours on the 2 x 2 grid, events living two
\* steps, four events in all: a deficit of one step is carried into the next.
ThreeStepPars ==
    [BasePars EXCEPT !.dxy = 18000, !.dt = 28800, !.cnv_lifetime = 57600,
                     !.w_cnv = Q(25, 48), !.nfig_hr = 8]

ParsSet ==
    {ThreeStepPars}
    \cup
    {[P EXCEPT !.nday = d] :
        P \in Variants(BasePars) \cup Variants(DensePars) \cup MoreVariants(DensePars)
              \cup {CrowdedPars, SparsePars, [SparsePars EXCEPT !.tau_sub = -1],
                    [SparsePars EXCEPT !.crh_init_sd = Q(1, 10)]},
        d \in 1 .. MaxDays}
    \cup {[P EXCEPT !.nday = d] : P \in DiffusiveVariants(DensePars), d \in DiffusiveDays}

----------------------------------------------------------------------------
(* A run of main(pars) *)

StatVars == {"time", "CRH_mean", "CRH_std", "CRH_new_conv", "CRH_driest", "nconv",
             "D2C95", "D2C_max", "D2C_mean", "D2C_median"}

nx == nx_of(pars)
nt == nt_of(pars)
Grid == Cells(nx, nx)

\* f with index k (re)written to value v, as a netCDF variable assignment does.
Written(f, k, v) == [j \in DOMAIN f \cup {k} |-> IF j = k THEN v ELSE f[j]]

\* The first exception of lines 102-183, "" if there is none: the divisions
\* by dxy, dt, tau_sub, tau_cnv, cnv_lifetime and tau_cin, np.linspace with a
\* negative count, and y_crh[0] / y_crh[1] on an array too short for them.
SetupError(P) ==
    IF P.dxy = 0 THEN "ZeroDivisionError"
    ELSE IF nx_of(P) < 0 THEN "ValueError"
    ELSE IF P.dt = 0 THEN "ZeroDivisionError"
    ELSE IF P.tau_sub = 0 THEN "ZeroDivisionError"
    ELSE IF P.tau_cnv = 0 THEN "ZeroDivisionError"
    ELSE IF P.cnv_lifetime = 0 THEN "ZeroDivisionError"
    ELSE IF nx_of(P) < 2 THEN "IndexError"
    ELSE IF P.tau_cin = 0 THEN "ZeroDivisionError"
    ELSE ""

\* Lines 102-183: the meshes, the derived quantities, the ADI vectors.
Setup ==
    /\ pc = "start"
    /\ IF SetupError(pars) # ""
       THEN /\ pc' = "failed"
            /\ err' = SetupError(pars)
            /\ UNCHANGED cnv_idx
       ELSE /\ pc' = "open"
            /\ cnv_idx' = [c \in Grid |-> 0]
            /\ UNCHANGED err
    /\ UNCHANGED <<pars, it, ncnv, ncnv_overflow, ncnv_new, new_loc, crh, cin, cnvdst,
                   nc1, nc2, stats, maps, nccnt, arg, res>>

\* Lines 196-286: both files are created, with their variables and attributes.
OpenFiles ==
    /\ pc = "open"
    /\ nc1' = "open"
    /\ nc2' = "open"
    /\ stats' = [v \in StatVars |-> <<>>]
    /\ maps' = <<>>
    /\ nccnt' = 0
    /\ pc' = "schedule"
    /\ UNCHANGED <<pars, err, it, ncnv, ncnv_overflow, ncnv_new, new_loc, cnv_idx,
                   crh, cin, cnvdst, arg, res>>

\* Lines 293-312: the events are dealt to the steps and the schedule smoothed.
\* np.random.choice raises ValueError for a negative number of events.
Schedule ==
    /\ pc = "schedule"
    /\ IF ncnv_tot_of(pars) < 0
       THEN /\ pc' = "failed"
            /\ err' = "ValueError"
            /\ UNCHANGED <<ncnv, ncnv_overflow>>
       ELSE /\ \E raw \in Schedules(nt, ncnv_tot_of(pars)) :
                  ncnv' = Smoothed(raw, Nsmth_of(pars))
            /\ ncnv_overflow' = 0
            /\ pc' = "fields"
            /\ UNCHANGED err
    /\ UNCHANGED <<pars, it, ncnv_new, new_loc, cnv_idx, crh, cin, cnvdst,
                   nc1, nc2, stats, maps, nccnt, arg, res>>

\* np.random.normal(loc=crh_init_mn, scale=crh_init_sd, size=[ny,nx]): the
\* mean itself when the deviation is 0, else one of two draws at every cell.
InitialFields(P) ==
    IF P.crh_init_sd.n = 0
    THEN {[c \in Cells(nx_of(P), nx_of(P)) |-> P.crh_init_mn]}
    ELSE [Cells(nx_of(P), nx_of(P)) ->
            {RSub(P.crh_init_mn, P.crh_init_sd), RAdd(P.crh_init_mn, P.crh_init_sd)}]

\* Lines 319-331: the initial CRH and cold-pool fields; the loop is entered.
InitFields ==
    /\ pc = "fields"
    /\ crh' \in InitialFields(pars)
    /\ cin' = [c \in Grid |-> RZero]
    /\ it' = 0
    /\ pc' = IF nt > 0 THEN "budget" ELSE "close"
    /\ UNCHANGED <<pars, err, ncnv, ncnv_overflow, ncnv_new, new_loc, cnv_idx, cnvdst,
                   nc1, nc2, stats, maps, nccnt, arg, res>>

\* Budget without line 344, ncnv_new = 0: the slip C11 would detect.
BudgetKeepsNegative ==
    /\ pc = "budget"
    /\ LET ncnv_curr == Cardinality(ActiveCells(cnv_idx))
           n0 == ncnv[it + 1] + ncnv_overflow - ncnv_curr
       IN  /\ ncnv_new' = n0
           /\ ncnv_overflow' = IF n0 < 0 THEN n0 ELSE 0
    /\ pc' = "ignite"
    /\ UNCHANGED <<pars, err, it, ncnv, new_loc, cnv_idx, crh, cin, cnvdst,
                   nc1, nc2, stats, maps, nccnt, arg, res>>

\* Lines 338-344: the number of new events of step it.
Budget ==
    /\ pc = "budget"
    /\ LET ncnv_curr == Cardinality(ActiveCells(cnv_idx))
           n0 == ncnv[it + 1] + ncnv_overflow - ncnv_curr
       IN  IF n0 < 0
           THEN ncnv_overflow' = n0 /\ ncnv_new' = 0
           ELSE ncnv_overflow' = 0 /\ ncnv_new' = n0
    /\ pc' = "ignite"
    /\ UNCHANGED <<pars, err, it, ncnv, new_loc, cnv_idx, crh, cin, cnvdst,
                   nc1, nc2, stats, maps, nccnt, arg, res>>

\* The exception np.random.choice(dummy_idx, size, p=prob1d, replace=False)
\* raises, "" if it draws: p holds NaN when the field it was normalised by sums
\* to 0; the sample may not exceed the population, nor the number of positive
\* entries of p.
ChoiceError(idx, cinfld, cin_radius, size) ==
    IF Support(idx, cinfld, cin_radius) = {} THEN "ValueError: probabilities contain NaN"
    ELSE IF size > Cardinality(DOMAIN idx)
         THEN "ValueError: Cannot take a larger sample than population"
    ELSE IF size > Cardinality(Support(idx, cinfld, cin_radius))
         THEN "ValueError: Fewer non-zero entries in p than size"
    ELSE ""

\* Draws without the mask (1-cnv_idx) of line 353: the slip C12 would detect.
DrawsUnmasked(idx, cinfld, cin_radius, size) ==
    {S \in SUBSET (DOMAIN idx) : Cardinality(S) = size}

\* The sets of cells the draw can return.
Draws(idx, cinfld, cin_radius, size) ==
    {S \in SUBSET Support(idx, cinfld, cin_radius) : Cardinality(S) = size}

\* A draw that returns as many cells as there are instead of raising: the slip C3 would detect.
ChoiceOutcomesClipped(idx, cinfld, cin_radius, size) ==
    LET avail == Cardinality(Support(idx, cinfld, cin_radius))
    IN  {[error |-> "", sample |-> S] :
            S \in Draws(idx, cinfld, cin_radius, IF size <= avail THEN size ELSE avail)}

\* What the draw of line 368 does: it raises, or returns a sample.
ChoiceOutcomes(idx, cinfld, cin_radius, size) ==
    IF ChoiceError(idx, cinfld, cin_radius, size) # ""
    THEN {[error |-> ChoiceError(idx, cinfld, cin_radius, size), sample |-> {}]}
    ELSE {[error |-> "", sample |-> S] : S \in Draws(idx, cinfld, cin_radius, size)}

\* Lines 350-370: the ignition probabilities and the placement of the events.
Ignite ==
    /\ pc = "ignite"
    /\ \E o \in ChoiceOutcomes(cnv_idx, cin, pars.cin_radius, ncnv_new) :
          IF o.error # ""
          THEN /\ pc' = "failed"
               /\ err' = o.error
               /\ UNCHANGED <<cnv_idx, new_loc>>
          ELSE /\ new_loc' = o.sample
               /\ cnv_idx' = [c \in Grid |-> IF c \in o.sample THEN 1 ELSE cnv_idx[c]]
               /\ pc' = "relax1"
               /\ UNCHANGED err
    /\ UNCHANGED <<pars, it, ncnv, ncnv_overflow, ncnv_new, crh, cin, cnvdst,
                   nc1, nc2, stats, maps, nccnt, arg, res>>

\* Line 378: the first convective half-step.
Relax1 ==
    /\ pc = "relax1"
    /\ crh' = Relax(crh, cnv_idx, pars.crh_det, dt_tau_cnv_of(pars))
    /\ pc' = "diffuse"
    /\ UNCHANGED <<pars, err, it, ncnv, ncnv_overflow, ncnv_new, new_loc, cnv_idx, cin,
                   cnvdst, nc1, nc2, stats, maps, nccnt, arg, res>>

\* Line 381: diffusion and subsidence for a full step.
Diffuse ==
    /\ pc = "diffuse"
    /\ crh' = ADIStep(crh, beta_of(pars), omega_of(pars), nx)
    /\ pc' = "relax2"
    /\ UNCHANGED <<pars, err, it, ncnv, ncnv_overflow, ncnv_new, new_loc, cnv_idx, cin,
                   cnvdst, nc1, nc2, stats, maps, nccnt, arg, res>>

\* Line 385: the second convective half-step.
Relax2 ==
    /\ pc = "relax2"
    /\ crh' = Relax(crh, cnv_idx, pars.crh_det, dt_tau_cnv_of(pars))
    /\ pc' = "distance"
    /\ UNCHANGED <<pars, err, it, ncnv, ncnv_overflow, ncnv_new, new_loc, cnv_idx, cin,
                   cnvdst, nc1, nc2, stats, maps, nccnt, arg, res>>

\* Lines 391-411: the distance field; the event count goes to the statistics.
Distance ==
    /\ pc = "distance"
    /\ cnvdst' = DistanceField(cnv_idx, nx, nx, dxkm_of(pars))
    /\ stats' = [stats EXCEPT !["nconv"] =
                    Written(@, it, Cardinality(ActiveCells(cnv_idx)))]
    /\ pc' = "coldpool"
    /\ UNCHANGED <<pars, err, it, ncnv, ncnv_overflow, ncnv_new, new_loc, cnv_idx, crh,
                   cin, nc1, nc2, maps, nccnt, arg, res>>

\* Lines 414-423: the cold pools, only with a positive inhibition radius.
ColdPool ==
    /\ pc = "coldpool"
    /\ cin' = IF pars.cin_radius > 0
              THEN clip01(ADIStep(MarkCold(cin, cnvdst, pars.cin_radius),
                                  beta_cin_of(pars), omega_cin_of(pars), nx))
              ELSE cin
    /\ pc' = "death"
    /\ UNCHANGED <<pars, err, it, ncnv, ncnv_overflow, ncnv_new, new_loc, cnv_idx, crh,
                   cnvdst, nc1, nc2, stats, maps, nccnt, arg, res>>

\* mask = np.where(np.random.uniform(size=(ny,nx)) <= cnv_death, 0, 1): the
\* sets of cells the mask can clear.  A draw from [0,1) can fall at or below
\* cnv_death iff cnv_death >= 0, and above it iff cnv_death < 1.
Masks(cells, cnv_death) ==
    {K \in SUBSET cells : /\ (K # {} => RLe(RZero, cnv_death))
                          /\ (K # cells => RLt(cnv_death, ROne))}

\* Lines 426-428: the random death of events.
Death ==
    /\ pc = "death"
    /\ \E K \in Masks(ActiveCells(cnv_idx), cnv_death_of(pars)) :
          cnv_idx' = [c \in Grid |-> IF c \in K THEN 0 ELSE cnv_idx[c]]
    /\ pc' = "write"
    /\ UNCHANGED <<pars, err, it, ncnv, ncnv_overflow, ncnv_new, new_loc, crh, cin,
                   cnvdst, nc1, nc2, stats, maps, nccnt, arg, res>>

\* StepStats without the test ncnv_new > 0 of line 438: the slip C6 would detect.
StepStatsUnguarded(new) == StatVars \ {"nconv"}

\* The statistics variables line 435-445 assign at index it: all but nconv
\* (written already), and CRH_new_conv only if the step placed new events.
StepStats(new) ==
    IF new > 0 THEN StatVars \ {"nconv"} ELSE StatVars \ {"nconv", "CRH_new_conv"}

\* What is stored (the floating-point statistics are not computed).
StatValue(v, step, dt) == IF v = "time" THEN step * dt ELSE "float"

\* Lines 435-454: the statistics of the step, a map every nfig_steps steps
\* (it % 0 raises ZeroDivisionError), and the next iteration or the end of
\* the loop.
WriteOut ==
    /\ pc = "write"
    /\ stats' = [v \in StatVars |->
                    IF v \in StepStats(ncnv_new)
                    THEN Written(stats[v], it, StatValue(v, it, pars.dt))
                    ELSE stats[v]]
    /\ IF nfig_steps_of(pars) = 0
       THEN /\ pc' = "failed"
            /\ err' = "ZeroDivisionError"
            /\ UNCHANGED <<it, maps, nccnt>>
       ELSE /\ IF it % nfig_steps_of(pars) = 0
               THEN maps' = Written(maps, nccnt, it) /\ nccnt' = nccnt + 1
               ELSE UNCHANGED <<maps, nccnt>>
            /\ it' = it + 1
            /\ pc' = IF it + 1 < nt THEN "budget" ELSE "close"
            /\ UNCHANGED err
    /\ UNCHANGED <<pars, ncnv, ncnv_overflow, ncnv_new, new_loc, cnv_idx, crh, cin,
                   cnvdst, nc1, nc2, arg, res>>

\* Lines 456-457: nc1.close(); nc2.close().
Close ==
    /\ pc = "close"
    /\ nc1' = "closed"
    /\ nc2' = "closed"
    /\ pc' = "done"
    /\ UNCHANGED <<pars, err, it, ncnv, ncnv_overflow, ncnv_new, new_loc, cnv_idx, crh,
                   cin, cnvdst, stats, maps, nccnt, arg, res>>

Init ==
    /\ pars \in ParsSet
    /\ pc = "start"
    /\ err = ""
    /\ it = 0
    /\ ncnv = <<>> /\ ncnv_overflow = 0 /\ ncnv_new = 0 /\ new_loc = {}
    /\ cnv_idx = NoField /\ crh = NoField /\ cin = NoField /\ cnvdst = NoField
    /\ nc1 = "unopened" /\ nc2 = "unopened"
    /\ stats = <<>> /\ maps = <<>> /\ nccnt = 0
    /\ arg = <<>> /\ res = NoField

Next ==
    \/ Setup
    \/ OpenFiles
    \/ Schedule
    \/ InitFields
    \/ Budget
    \/ Ignite
    \/ Relax1
    \/ Diffuse
    \/ Relax2
    \/ Distance
    \/ ColdPool
    \/ Death
    \/ WriteOut
    \/ Close

Spec == Init /\ [][Next]_vars

----------------------------------------------------------------------------
(* The ADI step on its own: one call on a bounded field *)

MaxFld == 1

ADIGrids == {2, 3}
ADIBetas == {RZero, Q(1, 2), ROne}
ADIOmegas == {RZero, Q(1, 2)}

InitADI ==
    /\ IdleRun
    /\ pc = "adi_call"
    /\ \E n \in ADIGrids, beta \in ADIBetas, omega \in ADIOmegas :
         \E f \in [Cells(n, n) -> 0 .. MaxFld] :
            arg = [fld |-> [c \in Cells(n, n) |-> RInt(f[c])],
                   beta |-> beta, omega |-> omega, nx |-> n]
    /\ res = NoField

CallADI ==
    /\ pc = "adi_call"
    /\ res' = ADIStep(arg.fld, arg.beta, arg.omega, arg.nx)
    /\ pc' = "adi_ret"
    /\ UNCHANGED <<runVars, arg>>

SpecADI == InitADI /\ [][CallADI]_vars

----------------------------------------------------------------------------
(* The distance field on its own: one computation on a bounded indicator *)

MaxGrid == 4
MaxActive == 3

DistSpacings == {2000, 9000}

InitDist ==
    /\ IdleRun
    /\ pc = "dist_call"
    /\ \E n \in 2 .. MaxGrid, d \in DistSpacings :
         \E A \in SUBSET Cells(n, n) :
            /\ Cardinality(A) <= MaxActive
            /\ arg = [idx |-> [c \in Cells(n, n) |-> IF c \in A THEN 1 ELSE 0],
                      nx |-> n, dxy |-> d]
    /\ res = NoField

CallDist ==
    /\ pc = "dist_call"
    /\ res' = DistanceField(arg.idx, arg.nx, arg.nx, dxkm_of(arg))
    /\ pc' = "dist_ret"
    /\ UNCHANGED <<runVars, arg>>

SpecDist == InitDist /\ [][CallDist]_vars

----------------------------------------------------------------------------
(* Claims *)

DistGe(v, r) == ~DistLt(v, r)

\* C1: whenever the distance field has been computed in a step with at least
\* one active cell (after ignition, before the death pass), it is 0 at every
\* active cell and at least the grid spacing dxkm at every other cell.
C1_ZeroAtActiveSpacingElsewhere ==
    (pc \in {"coldpool", "death"} /\ ActiveCells(cnv_idx) # {}) =>
        \A c \in Grid :
            /\ cnv_idx[c] = 1 => DistIsZero(cnvdst[c])
            /\ cnv_idx[c] = 0 => (~DistIsZero(cnvdst[c]) /\ DistGe(cnvdst[c], dxkm_of(pars)))

\* A step of a 3 x 3 run with active and inactive cells, one of them a
\* diagonal neighbour of its nearest updraft.
C1_Witness ==
    /\ pc = "coldpool"
    /\ nx = 3
    /\ ActiveCells(cnv_idx) # {}
    /\ \E c \in Grid : cnv_idx[c] = 0 /\ cnvdst[c].r2 = 2

\* The distance on the torus of period n by n, offsets min(|d|, n-|d|) per axis.
TorusSq(a, c, n) ==
    LET dx == Abs(a[1] - c[1])
        dy == Abs(a[2] - c[2])
        mx == IF dx <= n - dx THEN dx ELSE n - dx
        my == IF dy <= n - dy THEN dy ELSE n - dy
    IN  Sq(mx) + Sq(my)

\* The exhaustive reference: the minimum over all active cells, times dxkm; the
\* sentinel 1e6 everywhere when no cell is active.
ReferenceDistance(idx, n, dxkm) ==
    IF ActiveCells(idx) = {}
    THEN [c \in DOMAIN idx |-> [scale |-> RInt(1000000), r2 |-> 1]]
    ELSE [c \in DOMAIN idx |->
            [scale |-> dxkm, r2 |-> SetMin({TorusSq(a, c, n) : a \in ActiveCells(idx)})]]

\* C2: for every indicator array the distance field computed through the 3 x 3
\* periodic images equals the exhaustive torus reference, and holds the
\* sentinel 1e6 at every cell when no cell is active.
C2_ImagesEqualTorusReference ==
    pc = "dist_ret" => res = ReferenceDistance(arg.idx, arg.nx, dxkm_of(arg))

\* A field in which some cell is nearer to an image of an updraft than to
\* any updraft itself.
C2_Witness ==
    /\ pc = "dist_ret"
    /\ ActiveCells(arg.idx) # {}
    /\ \E c \in DOMAIN arg.idx : res[c].r2 < NearestSq(ActiveCells(arg.idx), c)

\* The exceptions np.random.choice raises at line 368.
SamplingErrors ==
    {"ValueError: probabilities contain NaN",
     "ValueError: Cannot take a larger sample than population",
     "ValueError: Fewer non-zero entries in p than size"}

InactiveCells == Grid \ ActiveCells(cnv_idx)

\* C3: a step that is to ignite more new events than there are inactive cells
\* ends the run with a sampling error, and its ignition marks no cell.
C3_OversizedDrawFails ==
    [][(pc = "ignite" /\ ncnv_new > Cardinality(InactiveCells)) =>
          /\ pc' = "failed"
          /\ err' \in SamplingErrors
          /\ cnv_idx' = cnv_idx]_vars

\* A run that failed in its ignition, asked for more events than the cells
\* left inactive, all of them with positive probability.
C3_Witness ==
    /\ pc = "failed"
    /\ err = "ValueError: Cannot take a larger sample than population"
    /\ ncnv_new > Cardinality(InactiveCells)
    /\ InactiveCells # {}

\* The configurations C5 calls invalid (the model has no explicit scheme and
\* so no stability bound).
InvalidPars(P) ==
    \/ P.tau_sub <= 0
    \/ P.tau_cnv <= 0
    \/ P.tau_cin <= 0
    \/ P.cnv_lifetime <= 0
    \/ P.dxy < 0

\* C4: when the ignition probability sums to zero (no cell with positive
\* probability) in a run of a valid configuration, the ignition phase is
\* skipped: the indicator is unchanged and the step goes on to the relaxation.
C4_ZeroSumIgnitionSkipped ==
    [][(~InvalidPars(pars) /\ pc = "ignite" /\ Support(cnv_idx, cin, pars.cin_radius) = {}) =>
          (pc' = "relax1" /\ cnv_idx' = cnv_idx)]_vars

\* C5: a run with a non-positive time scale or lifetime or a negative grid
\* spacing never gets past the initialization: it enters no time step.
C5_InvalidConfigurationRejected ==
    InvalidPars(pars) => pc \in {"start", "open", "schedule", "fields", "failed"} /\ it = 0

\* The states between two steps, and after the last.
BetweenSteps == pc \in {"budget", "close", "done"}

\* The map store after k steps: records 0 .. nccnt-1 hold the multiples of the
\* interval below k, in order.
MapsInStepOrder ==
    LET every == nfig_steps_of(pars)
    IN  /\ DOMAIN maps = 0 .. (nccnt - 1)
        /\ \A p \in DOMAIN maps : maps[p] = p * every
        /\ \A k \in 0 .. (it - 1) : (k % every = 0) => (\E p \in DOMAIN maps : maps[p] = k)
        /\ \A p \in DOMAIN maps : maps[p] < it

\* C6 as stated: after k steps every series has a value at each of 0..k-1 and
\* nowhere else, CRH_new_conv included, and the maps are in step order.
C6_AllSeriesComplete ==
    BetweenSteps =>
        /\ \A v \in StatVars : DOMAIN stats[v] = 0 .. (it - 1)
        /\ MapsInStepOrder

SeriesComplete ==
    BetweenSteps =>
        /\ \A v \in StatVars \ {"CRH_new_conv"} : DOMAIN stats[v] = 0 .. (it - 1)
        /\ DOMAIN stats["CRH_new_conv"] \subseteq 0 .. (it - 1)
        /\ MapsInStepOrder

NewConvWrittenIffIgnited ==
    (pc = "write" /\ pc' # "failed") =>
        /\ (it \in DOMAIN stats'["CRH_new_conv"]) <=> (ncnv_new > 0)
        /\ \A k \in 0 .. (it - 1) :
              (k \in DOMAIN stats'["CRH_new_conv"]) <=> (k \in DOMAIN stats["CRH_new_conv"])

\* C6, amended: after k steps every series but CRH_new_conv has a value at
\* each of 0..k-1 and nowhere else; CRH_new_conv has one exactly at the steps
\* that placed at least one new event; the maps are in step order.
C6_SeriesCompleteButNewConv ==
    []SeriesComplete /\ [][NewConvWrittenIffIgnited]_vars

\* Two steps done with a map every second step: the first placed events, the
\* second none.
C6_Witness ==
    /\ BetweenSteps
    /\ it = 2
    /\ nfig_steps_of(pars) = 2
    /\ DOMAIN stats["CRH_new_conv"] = {0}
    /\ DOMAIN maps = {0}

\* C7: a run of a valid configuration that has opened its files and has
\* ended, normally or with an exception, has closed both.
C7_FilesClosedOnEveryExit ==
    (~InvalidPars(pars) /\ pc \in {"done", "failed"} /\ nc1 # "unopened") =>
        (nc1 = "closed" /\ nc2 = "closed")

\* C8: the smoothed schedule sums to ncnv_tot, up to one event per step for
\* the rounding of the nt means.
C8_SmoothedScheduleKeepsTotal ==
    ncnv # <<>> => Abs(SeqSum(ncnv) - ncnv_tot_of(pars)) <= nt

\* C9: a call of the ADI step with omega = 0 returns a field with the sum of
\* its argument.
C9_ADIConservesSum ==
    (pc = "adi_ret" /\ arg.omega = RZero) => FieldSum(res) = FieldSum(arg.fld)

\* b lies in the closed interval between a and c.
RBetween(a, b, c) == (RLe(a, b) /\ RLe(b, c)) \/ (RLe(c, b) /\ RLe(b, a))

RelaxationKeepsBetween ==
    pc \in {"relax1", "relax2"} =>
        \A c \in Grid :
            /\ RBetween(crh[c], crh'[c], pars.crh_det)
            /\ cnv_idx[c] = 0 => crh'[c] = crh[c]

\* C10: a relaxation half-step leaves the CRH of every cell between its
\* value before and crh_det, and that of every inactive cell unchanged.
C10_RelaxationTowardsDetrained == [][RelaxationKeepsBetween]_vars

\* schedule[step] + overflow - active_count, before the step's budget is set.
BudgetBalance == ncnv[it + 1] + ncnv_overflow - Cardinality(ActiveCells(cnv_idx))

BudgetSplitsBalance ==
    pc = "budget" =>
        /\ pc' = "ignite"
        /\ BudgetBalance < 0 => (ncnv_overflow' = BudgetBalance /\ ncnv_new' = 0)
        /\ BudgetBalance >= 0 => (ncnv_overflow' = 0 /\ ncnv_new' = BudgetBalance)

BudgetSigns ==
    /\ ncnv_new >= 0
    /\ ncnv_overflow <= 0
    /\ ncnv_new = 0 \/ ncnv_overflow = 0

\* C11: every step sets new_events to schedule[step] + overflow - active_count
\* if that is not negative, with the overflow reset to 0, and else to 0 with
\* the overflow set to the negative balance; so new_events >= 0, overflow <= 0
\* and one of the two is 0 in every state.
C11_OverflowCarriesDeficit == []BudgetSigns /\ [][BudgetSplitsBalance]_vars

\* A step whose balance counts a deficit carried from the step before and is
\* negative again.
C11_Witness ==
    /\ pc = "ignite"
    /\ it = 2
    /\ ncnv[3] > 0
    /\ ncnv_overflow < 0
    /\ ncnv_overflow < ncnv[3] - Cardinality(ActiveCells(cnv_idx))

\* The cells an ignition has turned from inactive to active.
NewlyActive == ActiveCells(cnv_idx') \ ActiveCells(cnv_idx)

IgnitionMarksNewCells ==
    (pc = "ignite" /\ pc' = "relax1") =>
        /\ Cardinality(NewlyActive) = ncnv_new
        /\ new_loc' = NewlyActive
        /\ ActiveCells(cnv_idx) \subseteq ActiveCells(cnv_idx')
        /\ Cardinality(ActiveCells(cnv_idx')) = Cardinality(ActiveCells(cnv_idx)) + ncnv_new
        /\ \A c \in new_loc' : cnv_idx[c] = 0 /\ (pars.cin_radius > 0 => RLt(cin[c], ROne))

\* C12: an ignition that succeeds marks exactly ncnv_new distinct cells, each
\* inactive before it and, with cold pools, with a cold-pool value below 1;
\* the active count grows by ncnv_new and no active cell is drawn again.
C12_IgnitionMarksDistinctInactive == [][IgnitionMarksNewCells]_vars

\* An ignition with cold pools that placed events while other cells were
\* active already and an inactive cell was fully inhibited.
C12_Witness ==
    /\ pc = "relax1"
    /\ new_loc # {}
    /\ ActiveCells(cnv_idx) \ new_loc # {}
    /\ pars.cin_radius > 0
    /\ \E c \in Grid : cnv_idx[c] = 0 /\ cin[c] = ROne

\* The cells of the indicator before and after a step of the run.
BothCells == DOMAIN cnv_idx \cap DOMAIN cnv_idx'

IndicatorLifecycle ==
    /\ \A c \in BothCells :
          /\ (cnv_idx[c] = 0 /\ cnv_idx'[c] = 1) => pc = "ignite"
          /\ (cnv_idx[c] = 1 /\ cnv_idx'[c] = 0) => pc = "death"
    /\ (pc = "death" /\ pars.dt >= pars.cnv_lifetime) => ActiveCells(cnv_idx') = {}

\* C13: a cell turns active only in an ignition and inactive only in a death
\* pass, the death pass activates nothing, and when dt >= cnv_lifetime the
\* death pass leaves no cell active.
C13_IndicatorLifecycle == [][IndicatorLifecycle]_vars

ColdPoolInUnitInterval ==
    /\ \A c \in DOMAIN cin : RLe(RZero, cin[c]) /\ RLe(cin[c], ROne)
    /\ pars # NoPars => (pars.cin_radius <= 0 => \A c \in DOMAIN cin : cin[c] = RZero)

\* The cold-pool field with every cell nearer than cin_radius to an active
\* cell set to 1.
ColdPoolsSet ==
    [c \in Grid |-> IF DistLt(cnvdst[c], RInt(pars.cin_radius)) THEN ROne ELSE cin[c]]

ColdPoolStep ==
    (pc = "coldpool" /\ pars.cin_radius > 0) =>
        \E solved \in {ADIStep(ColdPoolsSet, beta_cin_of(pars), omega_cin_of(pars), nx)} :
            \A c \in Grid :
                cin'[c] = IF RLt(solved[c], RZero) THEN RZero
                          ELSE IF RLt(ROne, solved[c]) THEN ROne ELSE solved[c]

\* C14: the cold-pool field lies in [0,1] in every state, so at the end of
\* every step and at every ignition; with cin_radius > 0 a step sets it to 1
\* within cin_radius of the active cells, solves the diffusion and clips the
\* result to [0,1]; with cin_radius <= 0 it is zero everywhere.
C14_ColdPoolInUnitInterval == []ColdPoolInUnitInterval /\ [][ColdPoolStep]_vars

\* An ignition after the first step that reads a cold-pool field with a
\* value strictly between 0 and 1.
C14_Witness ==
    /\ pc = "ignite"
    /\ it >= 1
    /\ pars.cin_radius > 0
    /\ \E c \in Grid : RLt(RZero, cin[c]) /\ RLt(cin[c], ROne)

====
